---- MODULE Spec2Model ----
(***************************************************************************)
(* mt76 mac80211 glue (main.c): the WCID allocator, the station and        *)
(* interface lifecycle handlers, the key binding handler, start and stop   *)
(* against the receive path, the device mutex and the pre-TBTT tasklet.    *)
(*                                                                         *)
(* A machine word (one element of dev->wcid_mask) is the set of its bit    *)
(* positions that are 1, so a word of any width is exact.  An array or a   *)
(* register file is the function from the indices whose entry differs      *)
(* from the entry's zero value (NULL, no binding, no key) to that entry.    *)
(***************************************************************************)
EXTENDS Integers, FiniteSets, Sequences, TLC

\* ------------------------------------------------------------ constants

\* the ceiling of the per-station allocator: "if (idx > 247) return -1"
MAX_WCID == 247

\* mvif->group_wcid.idx = 254 - idx
GROUP_WCID_BASE == 254

\* station interfaces: idx += 8
STA_IDX_SHIFT == 8

\* errno of "no space left": sta_add returns -ENOSPC
ENOSPC == 28

\* errno a failing hardware-apply step returns
EINVAL == 22

\* the number of slots the allocation bitmap has to cover: idx 0..247
N_WCID == 248

\* width of the C int that ffs() takes
INT_BITS == 32

\* the word widths the driver is built for (BITS_PER_LONG)
WordWidths == {32, 64}

\* the values of hw_key_idx: -1 is "no key bound"
NO_KEY == -1

\* the NULL pointer / the NULL address
NULL == 0

\* ------------------------------------------------------------ bounds

\* station records the host stack can hand to sta_add in the lifecycle model
NSta == 2

\* virtual interfaces
NVif == 2

\* station records of the exhaustion model: enough to fill the table and
\* to ask for one more
NRecords == 249

\* below or at this many added stations the host removes stations freely
MaxChurn == 2

\* key indices 0..MaxKeyIdx
MaxKeyIdx == 1

\* peer addresses 1..NPeer of the stations
NPeer == 2

\* host contexts 1..NThread that call into the driver at the same time
NThread == 2

\* frames 1..MaxFrames the receive-completion path hands to mt76_rx
MaxFrames == 2

\* ------------------------------------------------------------ state

VARIABLES
    BITS_PER_LONG,  \* the word width of this build
    macaddr0,       \* dev->macaddr[0]
    wcid_mask,      \* dev->wcid_mask: word index -> word
    dev_wcid,       \* dev->wcid: idx -> station record published there (else NULL)
    msta,           \* station record -> its embedded wcid slot (msta->wcid)
    sta,            \* station record -> [addr, vif] of the station living in it
    added,          \* station records between a successful sta_add and sta_remove
    wcid_drop,      \* idx whose MT_WCID_DROP bit is set
    hw_wcid,        \* idx -> [bss, addr]: hardware per-slot address binding
    vif,            \* interface record -> [addr0, type] (vif->addr[0], vif->type)
    mvif,           \* interface record -> [idx, group_wcid] (struct mt76_vif)
    vif_added,      \* interface records between add_interface and remove_interface
    txqs,           \* transmit queues registered with the TX path
    hw_wcid_key,    \* idx -> key index of the per-WCID key entry, or NO_KEY
    hw_shared_key,  \* <<bss idx, key idx>> whose shared-key entry holds a key
    key_out,        \* key->hw_key_idx as written by the last set_key
    key_before,     \* the slot's hw_key_idx when the last set_key was called
    ret,            \* return value of the last handler
    hw_writes,      \* the hardware tables the last handler wrote
    rd,             \* the lock-free reader: [ref, peer, idx]
    state,          \* dev->state: the flags that are set
    mutex,          \* dev->mutex: the context holding it, or NULL
    pc,             \* host context -> the statement it is at, or "idle"
    loc,            \* host context -> the locals of the handler it runs
    started,        \* what is up: "mac", "phy", "mac_work", "napi"
    tasklet_count,  \* disable depth of dev->pre_tbtt_tasklet
    tbtt,           \* the pre-TBTT tasklet: "idle" or "running"
    rxp,            \* the receive-completion path: [pc, skb]
    skb_fate        \* frame -> [delivered, freed]: how often it was consumed

buildVars == <<BITS_PER_LONG, macaddr0>>
staVars == <<wcid_mask, dev_wcid, msta, sta, added, wcid_drop, hw_wcid>>
vifVars == <<vif, mvif, vif_added>>
keyVars == <<hw_wcid_key, hw_shared_key, key_out, key_before>>
lockVars == <<mutex, pc, loc>>
runVars == <<state, started, rxp, skb_fate>>
tbttVars == <<tasklet_count, tbtt>>
ctlVars == <<lockVars, runVars, tbttVars>>

vars == <<buildVars, staVars, vifVars, keyVars, txqs, ret, hw_writes, rd, ctlVars>>

Records == 1..NRecords
Vifs == 1..NVif
KeyIdx == 0..MaxKeyIdx
Peers == 1..NPeer
Threads == 1..NThread
Frames == 1..MaxFrames
IfTypes == {"AP", "STATION"}

\* ------------------------------------------------------------ arrays

\* tbl[i] of an array whose entries default to d
Get(tbl, i, d) == IF i \in DOMAIN tbl THEN tbl[i] ELSE d

\* tbl[i] = x in an array whose entries default to d
Put(tbl, i, x, d) ==
    LET D == IF x = d THEN DOMAIN tbl \ {i} ELSE DOMAIN tbl \cup {i}
    IN  [j \in D |-> IF j = i THEN x ELSE tbl[j]]

\* ------------------------------------------------------------ bit helpers

Min(S) == CHOOSE x \in S : \A y \in S : x <= y

\* ffs(int x): 1 + the position of the lowest 1 bit, 0 when x is 0
ffs(x) == IF x = {} THEN 0 ELSE 1 + Min(x)

\* (int)~word: the argument of ffs is converted to int, which keeps the low
\* INT_BITS bits of the complemented word
NotAsInt(word) == {b \in 0..(INT_BITS - 1) : b < BITS_PER_LONG /\ b \notin word}

\* a lost update of the bitmap
SetBit_lost(word, b) == word

\* word |= BIT(b)
SetBit(word, b) == word \cup {b}

\* word &= ~BIT(b)
ClearBit(word, b) == word \ {b}

\* ARRAY_SIZE(dev->wcid_mask): the words that cover idx 0..247
ARRAY_SIZE_wcid_mask == (N_WCID + BITS_PER_LONG - 1) \div BITS_PER_LONG

\* the idx whose bit is set in a bitmap
BitsOf(mask) == UNION {{i * BITS_PER_LONG + b : b \in mask[i]} : i \in DOMAIN mask}

\* ------------------------------------------------------------ allocator

\* the for loop of mt76_wcid_alloc from word i on; the value is the loop's
\* exit state [i, idx, mask]. Leaving the loop without a break leaves idx 0:
\* the result of the last ffs().
RECURSIVE wcid_alloc_scan(_, _)
wcid_alloc_scan(mask, i) ==
    IF i >= ARRAY_SIZE_wcid_mask
    THEN [i |-> i, idx |-> 0, mask |-> mask]
    ELSE LET f == ffs(NotAsInt(mask[i]))
         IN  IF f = 0
             THEN wcid_alloc_scan(mask, i + 1)
             ELSE [i |-> i, idx |-> f - 1,
                   mask |-> [mask EXCEPT ![i] = SetBit(@, f - 1)]]

\* mt76_wcid_alloc: [ret, mask], ret the idx or -1, mask the bitmap it leaves
mt76_wcid_alloc(mask) ==
    LET x == wcid_alloc_scan(mask, 0)
        idx == x.i * BITS_PER_LONG + x.idx
    IN  [ret |-> IF idx > MAX_WCID THEN -1 ELSE idx, mask |-> x.mask]

\* ------------------------------------------------------------ interfaces

\* bit b of the byte x
Bit(x, b) == (x \div (2 ^ b)) % 2

\* x ^ y on bytes
Xor8(x, y) ==
    LET B(b) == (Bit(x, b) + Bit(y, b)) % 2
    IN  B(0) + 2 * B(1) + 4 * B(2) + 8 * B(3) + 16 * B(4) + 32 * B(5)
        + 64 * B(6) + 128 * B(7)

\* the bss index mt76_add_interface computes (lines 60-80)
vif_idx(mac0, addr0, type) ==
    LET base == IF Bit(addr0, 1) = 1
                THEN 1 + ((Xor8(mac0, addr0) \div 4) % 8)
                ELSE 0
    IN  IF type = "STATION" THEN base + STA_IDX_SHIFT ELSE base

\* mvif->group_wcid.idx
group_wcid_idx(idx) == GROUP_WCID_BASE - idx

ZeroWcid == [idx |-> 0, hw_key_idx |-> 0]
ZeroMvif == [idx |-> 0, group_wcid |-> ZeroWcid]
NoVif == [addr0 |-> 0, type |-> "AP"]
NoBinding == [bss |-> 0, addr |-> NULL]
NoSta == [addr |-> NULL, vif |-> NULL]
NoReader == [ref |-> NULL, peer |-> NULL, idx |-> 0]

\* the locals of a handler that is not running
NoLocals == [ret |-> 0, changed |-> {}, s |-> NULL, idx |-> 0]

\* the receive-completion path is not polling
NoPoll == [pc |-> "idle", skb |-> NULL]

\* a frame nobody consumed
NoFate == [delivered |-> 0, freed |-> 0]

\* mt76_add_interface(hw, vif) for interface record v, created by the host
\* with first address octet addr0 and the given role
mt76_add_interface(v, addr0, type) ==
    /\ v \notin vif_added
    /\ LET idx == vif_idx(macaddr0, addr0, type)
       IN  /\ vif' = [vif EXCEPT ![v] = [addr0 |-> addr0, type |-> type]]
           /\ mvif' = [mvif EXCEPT ![v] =
                         [idx |-> idx,
                          group_wcid |-> [idx |-> group_wcid_idx(idx),
                                          hw_key_idx |-> NO_KEY]]]
    /\ txqs' = txqs \cup {<<"vif", v>>}
    /\ vif_added' = vif_added \cup {v}
    /\ ret' = 0
    /\ hw_writes' = {}
    /\ UNCHANGED <<ctlVars, buildVars, staVars, keyVars, rd>>

\* mt76_remove_interface(hw, vif); the host removes an interface after its
\* stations
mt76_remove_interface(v) ==
    /\ v \in vif_added
    /\ \A s \in added : sta[s].vif # v
    /\ txqs' = txqs \ {<<"vif", v>>}
    /\ vif_added' = vif_added \ {v}
    /\ hw_writes' = {}
    /\ UNCHANGED <<ctlVars, buildVars, staVars, vif, mvif, keyVars, ret, rd>>

\* ------------------------------------------------------------ stations

\* mt76_sta_add(hw, vif, sta) for the station with address addr, whose
\* record the host placed in s
mt76_sta_add(s, v, addr) ==
    /\ s \notin added
    /\ v \in vif_added
    /\ LET a == mt76_wcid_alloc(wcid_mask)
           idx == a.ret
       IN  /\ wcid_mask' = a.mask
           /\ IF idx < 0
              THEN /\ ret' = -ENOSPC
                   /\ hw_writes' = {}
                   /\ UNCHANGED <<msta, sta, added, hw_wcid, wcid_drop, txqs,
                                  dev_wcid>>
              ELSE /\ sta' = Put(sta, s, [addr |-> addr, vif |-> v], NoSta)
                   /\ msta' = Put(msta, s, [idx |-> idx, hw_key_idx |-> NO_KEY], ZeroWcid)
                   /\ hw_wcid' = Put(hw_wcid, idx, [bss |-> mvif[v].idx, addr |-> addr],
                                     NoBinding)
                   /\ wcid_drop' = wcid_drop \ {idx}
                   /\ txqs' = txqs \cup {<<"sta", s>>}
                   /\ dev_wcid' = Put(dev_wcid, idx, s, NULL)
                   /\ added' = added \cup {s}
                   /\ hw_writes' = {"wcid", "drop"}
                   /\ ret' = 0
    /\ UNCHANGED <<ctlVars, buildVars, vifVars, keyVars, rd>>

\* mt76_sta_remove(hw, vif, sta), matched to the successful sta_add of s
mt76_sta_remove(s) ==
    /\ s \in added
    /\ LET idx == msta[s].idx
       IN  /\ dev_wcid' = Put(dev_wcid, idx, NULL, NULL)
           /\ txqs' = txqs \ {<<"sta", s>>}
           /\ wcid_drop' = wcid_drop \cup {idx}
           /\ wcid_mask' = [wcid_mask EXCEPT ![idx \div BITS_PER_LONG] =
                              ClearBit(@, idx % BITS_PER_LONG)]
           /\ hw_wcid' = Put(hw_wcid, idx, NoBinding, NoBinding)
    /\ added' = added \ {s}
    /\ hw_writes' = {"wcid", "drop"}
    /\ ret' = 0
    /\ UNCHANGED <<ctlVars, buildVars, msta, sta, vifVars, keyVars, rd>>

\* ------------------------------------------------------------ keys

\* a removal that clears the slot whatever key index it names
key_idx_after_any(cmd, cur, k) == IF cmd = "SET_KEY" THEN k ELSE NO_KEY

\* wcid->hw_key_idx after lines 286-294, from its value cur
key_idx_after(cmd, cur, k) ==
    IF cmd = "SET_KEY" THEN k
    ELSE IF k = cur THEN NO_KEY ELSE cur

\* the key pointer after lines 286-294: the key when installing, NULL
\* (NO_KEY) when removing
key_after(cmd, k) == IF cmd = "SET_KEY" THEN k ELSE NO_KEY

\* mt76_mac_wcid_set_key(dev, idx, key) with result r: the per-WCID key
\* entry takes the key (none for a NULL key) unless the step fails
wcid_set_key(tbl, idx, key, r) == IF r = 0 THEN Put(tbl, idx, key, NO_KEY) ELSE tbl

\* mt76_mac_shared_key_setup(dev, bss, k, key) with result r
shared_key_setup(tbl, bss, k, key, r) ==
    IF r # 0 THEN tbl
    ELSE IF key = NO_KEY THEN tbl \ {<<bss, k>>} ELSE tbl \cup {<<bss, k>>}

\* mt76_set_key(hw, cmd, vif, sta, key): s is the station record or NULL,
\* k is key->keyidx, r1 and r2 are the results of the per-WCID and of the
\* shared-key hardware step
mt76_set_key(cmd, v, s, k, r1, r2) ==
    /\ v \in vif_added
    /\ s # NULL => s \in added /\ sta[s].vif = v
    /\ LET wcid == IF s # NULL THEN msta[s] ELSE mvif[v].group_wcid
           hki == key_idx_after(cmd, wcid.hw_key_idx, k)
           key == key_after(cmd, k)
       IN  /\ key_out' = IF cmd = "SET_KEY" THEN wcid.idx ELSE key_out
           /\ key_before' = wcid.hw_key_idx
           /\ IF s # NULL
              THEN /\ msta' = [msta EXCEPT ![s].hw_key_idx = hki]
                   /\ hw_wcid_key' = wcid_set_key(hw_wcid_key, wcid.idx, key, r1)
                   /\ hw_writes' = IF r1 = 0 THEN {"wcid_key"} ELSE {}
                   /\ ret' = r1
                   /\ UNCHANGED <<mvif, hw_shared_key>>
              ELSE /\ mvif' = [mvif EXCEPT ![v].group_wcid.hw_key_idx = hki]
                   /\ UNCHANGED msta
                   /\ IF key # NO_KEY \/ hki = k
                      THEN /\ hw_wcid_key' = wcid_set_key(hw_wcid_key, wcid.idx, key, r1)
                           /\ IF r1 # 0
                              THEN /\ ret' = r1
                                   /\ hw_writes' = {}
                                   /\ UNCHANGED hw_shared_key
                              ELSE /\ hw_shared_key' =
                                        shared_key_setup(hw_shared_key, mvif[v].idx, k, key, r2)
                                   /\ hw_writes' = {"wcid_key"} \cup
                                        (IF r2 = 0 THEN {"shared_key"} ELSE {})
                                   /\ ret' = r2
                      ELSE /\ hw_shared_key' =
                                shared_key_setup(hw_shared_key, mvif[v].idx, k, key, r2)
                           /\ hw_writes' = IF r2 = 0 THEN {"shared_key"} ELSE {}
                           /\ ret' = r2
                           /\ UNCHANGED hw_wcid_key
    /\ UNCHANGED <<ctlVars, buildVars, wcid_mask, dev_wcid, sta, added, wcid_drop, hw_wcid,
                   vif, vif_added, txqs, rd>>

\* ------------------------------------------------------------ reader

\* a lock-free reader of dev->wcid (receive path): rcu_dereference of
\* dev->wcid[i] inside a read-side section
rcu_dereference_wcid(i) ==
    /\ rd.ref = NULL
    /\ Get(dev_wcid, i, NULL) # NULL
    /\ rd' = [ref |-> dev_wcid[i], peer |-> sta[dev_wcid[i]].addr, idx |-> i]
    /\ UNCHANGED <<ctlVars, buildVars, staVars, vifVars, keyVars, txqs, ret, hw_writes>>

\* the reader leaves its read-side section and drops the reference
rcu_read_unlock ==
    /\ rd.ref # NULL
    /\ rd' = NoReader
    /\ UNCHANGED <<ctlVars, buildVars, staVars, vifVars, keyVars, txqs, ret, hw_writes>>

\* ------------------------------------------------------------ start, stop, rx

\* a host context moves to statement l, its locals becoming x
Goto(t, l, x) ==
    /\ pc' = [pc EXCEPT ![t] = l]
    /\ loc' = [loc EXCEPT ![t] = x]

\* mutex_lock(&dev->mutex) by context t, entering a handler at statement l
\* with locals x: it waits while another context holds the mutex
mutex_lock(t, l, x) ==
    /\ pc[t] = "idle"
    /\ mutex = NULL
    /\ mutex' = t
    /\ Goto(t, l, x)

\* mutex_unlock(&dev->mutex) and return of loc[t].ret from statement l
mutex_unlock(t, l) ==
    /\ pc[t] = l
    /\ mutex' = NULL
    /\ ret' = loc[t].ret
    /\ Goto(t, "idle", NoLocals)

\* the statements of mt76_start and mt76_stop
StartStopPc == {"start_mac", "start_phy", "start_work", "start_napi", "start_set_bit",
                "start_out", "stop_napi", "stop_clear_bit", "stop_hardware", "stop_out"}

\* the host stack calls start and stop in turn, one at a time
NoStartStop == \A t \in Threads : pc[t] \notin StartStopPc

\* a napi_disable that returns without waiting for the poll in progress
napi_unsynchronized(p) == TRUE

\* napi_disable(&dev->napi) returns once no poll is in progress
napi_synchronized(p) == p.pc = "idle"

\* mt76_start, line 22
start_lock(t) ==
    /\ NoStartStop
    /\ "RUNNING" \notin state
    /\ mutex_lock(t, "start_mac", NoLocals)
    /\ UNCHANGED <<buildVars, staVars, vifVars, keyVars, txqs, ret, hw_writes, rd,
                   runVars, tbttVars>>

\* mt76_start, lines 24-26: mt76_mac_start(dev) returns r
start_mac(t, r) ==
    /\ pc[t] = "start_mac"
    /\ started' = IF r = 0 THEN started \cup {"mac"} ELSE started
    /\ Goto(t, IF r = 0 THEN "start_phy" ELSE "start_out", [loc[t] EXCEPT !.ret = r])
    /\ UNCHANGED <<buildVars, staVars, vifVars, keyVars, txqs, ret, hw_writes, rd,
                   mutex, state, rxp, skb_fate, tbttVars>>

\* mt76_start, lines 28-30: mt76_phy_start(dev) returns r
start_phy(t, r) ==
    /\ pc[t] = "start_phy"
    /\ started' = IF r = 0 THEN started \cup {"phy"} ELSE started
    /\ Goto(t, IF r = 0 THEN "start_work" ELSE "start_out", [loc[t] EXCEPT !.ret = r])
    /\ UNCHANGED <<buildVars, staVars, vifVars, keyVars, txqs, ret, hw_writes, rd,
                   mutex, state, rxp, skb_fate, tbttVars>>

\* mt76_start, lines 32-33: ieee80211_queue_delayed_work(.., &dev->mac_work, ..)
start_queue_work(t) ==
    /\ pc[t] = "start_work"
    /\ started' = started \cup {"mac_work"}
    /\ Goto(t, "start_napi", loc[t])
    /\ UNCHANGED <<buildVars, staVars, vifVars, keyVars, txqs, ret, hw_writes, rd,
                   mutex, state, rxp, skb_fate, tbttVars>>

\* mt76_start, line 34: napi_enable(&dev->napi)
start_napi_enable(t) ==
    /\ pc[t] = "start_napi"
    /\ started' = started \cup {"napi"}
    /\ Goto(t, "start_set_bit", loc[t])
    /\ UNCHANGED <<buildVars, staVars, vifVars, keyVars, txqs, ret, hw_writes, rd,
                   mutex, state, rxp, skb_fate, tbttVars>>

\* mt76_start, line 36: set_bit(MT76_STATE_RUNNING, &dev->state)
start_set_bit(t) ==
    /\ pc[t] = "start_set_bit"
    /\ state' = state \cup {"RUNNING"}
    /\ Goto(t, "start_out", loc[t])
    /\ UNCHANGED <<buildVars, staVars, vifVars, keyVars, txqs, ret, hw_writes, rd,
                   mutex, started, rxp, skb_fate, tbttVars>>

\* mt76_start, lines 38-40
start_unlock(t) ==
    /\ mutex_unlock(t, "start_out")
    /\ hw_writes' = {}
    /\ UNCHANGED <<buildVars, staVars, vifVars, keyVars, txqs, rd, runVars, tbttVars>>

\* mt76_stop, line 48; the host stops a device it started
stop_lock(t) ==
    /\ NoStartStop
    /\ "RUNNING" \in state
    /\ mutex_lock(t, "stop_napi", NoLocals)
    /\ UNCHANGED <<buildVars, staVars, vifVars, keyVars, txqs, ret, hw_writes, rd,
                   runVars, tbttVars>>

\* mt76_stop, line 49: napi_disable(&dev->napi)
stop_napi_disable(t) ==
    /\ pc[t] = "stop_napi"
    /\ napi_synchronized(rxp)
    /\ started' = started \ {"napi"}
    /\ Goto(t, "stop_clear_bit", loc[t])
    /\ UNCHANGED <<buildVars, staVars, vifVars, keyVars, txqs, ret, hw_writes, rd,
                   mutex, state, rxp, skb_fate, tbttVars>>

\* mt76_stop, line 50: clear_bit(MT76_STATE_RUNNING, &dev->state)
stop_clear_bit(t) ==
    /\ pc[t] = "stop_clear_bit"
    /\ state' = state \ {"RUNNING"}
    /\ Goto(t, "stop_hardware", loc[t])
    /\ UNCHANGED <<buildVars, staVars, vifVars, keyVars, txqs, ret, hw_writes, rd,
                   mutex, started, rxp, skb_fate, tbttVars>>

\* mt76_stop, line 51: mt76_stop_hardware(dev) cancels the calibration work
\* and stops MAC and PHY
stop_hardware(t) ==
    /\ pc[t] = "stop_hardware"
    /\ started' = started \ {"mac", "phy", "mac_work"}
    /\ Goto(t, "stop_out", loc[t])
    /\ UNCHANGED <<buildVars, staVars, vifVars, keyVars, txqs, ret, hw_writes, rd,
                   mutex, state, rxp, skb_fate, tbttVars>>

\* mt76_stop, line 52
stop_unlock(t) ==
    /\ mutex_unlock(t, "stop_out")
    /\ hw_writes' = {}
    /\ UNCHANGED <<buildVars, staVars, vifVars, keyVars, txqs, rd, runVars, tbttVars>>

\* the receive-completion path: while napi is enabled a poll takes the next
\* frame f off the ring and calls mt76_rx(dev, f)
napi_poll(f) ==
    /\ "napi" \in started
    /\ rxp.pc = "idle"
    /\ f \notin DOMAIN skb_fate
    /\ \A g \in Frames : g < f => g \in DOMAIN skb_fate
    /\ rxp' = [pc |-> "rx", skb |-> f]
    /\ UNCHANGED <<buildVars, staVars, vifVars, keyVars, txqs, ret, hw_writes, rd,
                   lockVars, state, started, skb_fate, tbttVars>>

\* mt76_rx, line 459: test_bit(MT76_STATE_RUNNING, &dev->state)
rx_test_bit ==
    /\ rxp.pc = "rx"
    /\ rxp' = [rxp EXCEPT !.pc = IF "RUNNING" \in state THEN "deliver" ELSE "free"]
    /\ UNCHANGED <<buildVars, staVars, vifVars, keyVars, txqs, ret, hw_writes, rd,
                   lockVars, state, started, skb_fate, tbttVars>>

\* one more consumption of frame f, by delivery or by free
Consume(fate, f, how) ==
    LET old == Get(fate, f, NoFate)
        new == [old EXCEPT ![how] = @ + 1]
    IN  [g \in DOMAIN fate \cup {f} |-> IF g = f THEN new ELSE fate[g]]

\* mt76_rx, lines 460-461: dev_kfree_skb(skb); return
rx_free ==
    /\ rxp.pc = "free"
    /\ skb_fate' = Consume(skb_fate, rxp.skb, "freed")
    /\ rxp' = NoPoll
    /\ UNCHANGED <<buildVars, staVars, vifVars, keyVars, txqs, ret, hw_writes, rd,
                   lockVars, state, started, tbttVars>>

\* mt76_rx, line 464: ieee80211_rx(dev->hw, skb)
rx_deliver ==
    /\ rxp.pc = "deliver"
    /\ skb_fate' = Consume(skb_fate, rxp.skb, "delivered")
    /\ rxp' = NoPoll
    /\ UNCHANGED <<buildVars, staVars, vifVars, keyVars, txqs, ret, hw_writes, rd,
                   lockVars, state, started, tbttVars>>

\* ------------------------------------------------------------ station steps

\* no handler is at work on station record s
StaQuiet(s) == \A t \in Threads : pc[t] = "idle" \/ loc[t].s # s

\* a station add that publishes a slot it never initialized
sta_add_init_skipped(t) ==
    /\ pc[t] = "sta_add_init"
    /\ Goto(t, "sta_add_setup", loc[t])
    /\ UNCHANGED <<buildVars, staVars, vifVars, keyVars, txqs, ret, hw_writes, rd,
                   mutex, runVars, tbttVars>>

\* a station remove that leaves the slot published
sta_remove_unpublish_skipped(t) ==
    /\ pc[t] = "sta_rm_unpublish"
    /\ Goto(t, "sta_rm_txq", loc[t])
    /\ UNCHANGED <<buildVars, staVars, vifVars, keyVars, txqs, ret, hw_writes, rd,
                   mutex, runVars, tbttVars>>

\* mt76_sta_add, line 224, called for the station with address addr on
\* interface v, whose record the host placed in s
sta_add_lock(t, s, v, addr) ==
    /\ s \notin added
    /\ StaQuiet(s)
    /\ v \in vif_added
    /\ mutex_lock(t, "sta_add_alloc", [NoLocals EXCEPT !.s = s])
    /\ sta' = Put(sta, s, [addr |-> addr, vif |-> v], NoSta)
    /\ UNCHANGED <<buildVars, wcid_mask, dev_wcid, msta, added, wcid_drop, hw_wcid,
                   vifVars, keyVars, txqs, ret, hw_writes, rd, runVars, tbttVars>>

\* mt76_sta_add, lines 226-230
sta_add_alloc(t) ==
    /\ pc[t] = "sta_add_alloc"
    /\ LET a == mt76_wcid_alloc(wcid_mask)
       IN  /\ wcid_mask' = a.mask
           /\ IF a.ret < 0
              THEN Goto(t, "sta_add_out", [loc[t] EXCEPT !.ret = -ENOSPC])
              ELSE Goto(t, "sta_add_init", [loc[t] EXCEPT !.idx = a.ret])
    /\ UNCHANGED <<buildVars, dev_wcid, msta, sta, added, wcid_drop, hw_wcid,
                   vifVars, keyVars, txqs, ret, hw_writes, rd, mutex, runVars, tbttVars>>

\* mt76_sta_add, lines 232-233
sta_add_init(t) ==
    /\ pc[t] = "sta_add_init"
    /\ msta' = Put(msta, loc[t].s, [idx |-> loc[t].idx, hw_key_idx |-> NO_KEY], ZeroWcid)
    /\ Goto(t, "sta_add_setup", loc[t])
    /\ UNCHANGED <<buildVars, wcid_mask, dev_wcid, sta, added, wcid_drop, hw_wcid,
                   vifVars, keyVars, txqs, ret, hw_writes, rd, mutex, runVars, tbttVars>>

\* mt76_sta_add, line 234: mt76_mac_wcid_setup(dev, idx, mvif->idx, sta->addr)
sta_add_wcid_setup(t) ==
    /\ pc[t] = "sta_add_setup"
    /\ LET s == loc[t].s
       IN  hw_wcid' = Put(hw_wcid, loc[t].idx,
                          [bss |-> mvif[sta[s].vif].idx, addr |-> sta[s].addr], NoBinding)
    /\ Goto(t, "sta_add_drop", loc[t])
    /\ UNCHANGED <<buildVars, wcid_mask, dev_wcid, msta, sta, added, wcid_drop,
                   vifVars, keyVars, txqs, ret, hw_writes, rd, mutex, runVars, tbttVars>>

\* mt76_sta_add, line 235: mt76_clear(dev, MT_WCID_DROP(idx), ..)
sta_add_clear_drop(t) ==
    /\ pc[t] = "sta_add_drop"
    /\ wcid_drop' = wcid_drop \ {loc[t].idx}
    /\ Goto(t, "sta_add_txq", loc[t])
    /\ UNCHANGED <<buildVars, wcid_mask, dev_wcid, msta, sta, added, hw_wcid,
                   vifVars, keyVars, txqs, ret, hw_writes, rd, mutex, runVars, tbttVars>>

\* mt76_sta_add, lines 236-237: mt76_txq_init for every TID queue
sta_add_txq_init(t) ==
    /\ pc[t] = "sta_add_txq"
    /\ txqs' = txqs \cup {<<"sta", loc[t].s>>}
    /\ Goto(t, "sta_add_publish", loc[t])
    /\ UNCHANGED <<buildVars, staVars, vifVars, keyVars, ret, hw_writes, rd,
                   mutex, runVars, tbttVars>>

\* mt76_sta_add, line 239: rcu_assign_pointer(dev->wcid[idx], &msta->wcid)
sta_add_publish(t) ==
    /\ pc[t] = "sta_add_publish"
    /\ dev_wcid' = Put(dev_wcid, loc[t].idx, loc[t].s, NULL)
    /\ Goto(t, "sta_add_out", loc[t])
    /\ UNCHANGED <<buildVars, wcid_mask, msta, sta, added, wcid_drop, hw_wcid,
                   vifVars, keyVars, txqs, ret, hw_writes, rd, mutex, runVars, tbttVars>>

\* mt76_sta_add, lines 241-244
sta_add_unlock(t) ==
    /\ added' = IF loc[t].ret = 0 THEN added \cup {loc[t].s} ELSE added
    /\ hw_writes' = IF loc[t].ret = 0 THEN {"wcid", "drop"} ELSE {}
    /\ mutex_unlock(t, "sta_add_out")
    /\ UNCHANGED <<buildVars, wcid_mask, dev_wcid, msta, sta, wcid_drop, hw_wcid,
                   vifVars, keyVars, txqs, rd, runVars, tbttVars>>

\* mt76_sta_remove, lines 253-256, matched to the successful sta_add of s
sta_remove_lock(t, s) ==
    /\ s \in added
    /\ StaQuiet(s)
    /\ mutex_lock(t, "sta_rm_unpublish", [NoLocals EXCEPT !.s = s, !.idx = msta[s].idx])
    /\ added' = added \ {s}
    /\ UNCHANGED <<buildVars, wcid_mask, dev_wcid, msta, sta, wcid_drop, hw_wcid,
                   vifVars, keyVars, txqs, ret, hw_writes, rd, runVars, tbttVars>>

\* mt76_sta_remove, line 257: rcu_assign_pointer(dev->wcid[idx], NULL)
sta_remove_unpublish(t) ==
    /\ pc[t] = "sta_rm_unpublish"
    /\ dev_wcid' = Put(dev_wcid, loc[t].idx, NULL, NULL)
    /\ Goto(t, "sta_rm_txq", loc[t])
    /\ UNCHANGED <<buildVars, wcid_mask, msta, sta, added, wcid_drop, hw_wcid,
                   vifVars, keyVars, txqs, ret, hw_writes, rd, mutex, runVars, tbttVars>>

\* mt76_sta_remove, lines 258-259: mt76_txq_remove for every TID queue
sta_remove_txq(t) ==
    /\ pc[t] = "sta_rm_txq"
    /\ txqs' = txqs \ {<<"sta", loc[t].s>>}
    /\ Goto(t, "sta_rm_drop", loc[t])
    /\ UNCHANGED <<buildVars, staVars, vifVars, keyVars, ret, hw_writes, rd,
                   mutex, runVars, tbttVars>>

\* mt76_sta_remove, line 260: mt76_set(dev, MT_WCID_DROP(idx), ..)
sta_remove_set_drop(t) ==
    /\ pc[t] = "sta_rm_drop"
    /\ wcid_drop' = wcid_drop \cup {loc[t].idx}
    /\ Goto(t, "sta_rm_mask", loc[t])
    /\ UNCHANGED <<buildVars, wcid_mask, dev_wcid, msta, sta, added, hw_wcid,
                   vifVars, keyVars, txqs, ret, hw_writes, rd, mutex, runVars, tbttVars>>

\* mt76_sta_remove, line 261
sta_remove_clear_mask(t) ==
    /\ pc[t] = "sta_rm_mask"
    /\ wcid_mask' = [wcid_mask EXCEPT ![loc[t].idx \div BITS_PER_LONG] =
                       ClearBit(@, loc[t].idx % BITS_PER_LONG)]
    /\ Goto(t, "sta_rm_setup", loc[t])
    /\ UNCHANGED <<buildVars, dev_wcid, msta, sta, added, wcid_drop, hw_wcid,
                   vifVars, keyVars, txqs, ret, hw_writes, rd, mutex, runVars, tbttVars>>

\* mt76_sta_remove, line 262: mt76_mac_wcid_setup(dev, idx, 0, NULL)
sta_remove_wcid_setup(t) ==
    /\ pc[t] = "sta_rm_setup"
    /\ hw_wcid' = Put(hw_wcid, loc[t].idx, NoBinding, NoBinding)
    /\ Goto(t, "sta_rm_out", loc[t])
    /\ UNCHANGED <<buildVars, wcid_mask, dev_wcid, msta, sta, added, wcid_drop,
                   vifVars, keyVars, txqs, ret, hw_writes, rd, mutex, runVars, tbttVars>>

\* mt76_sta_remove, lines 263-265
sta_remove_unlock(t) ==
    /\ hw_writes' = {"wcid", "drop"}
    /\ mutex_unlock(t, "sta_rm_out")
    /\ UNCHANGED <<buildVars, staVars, vifVars, keyVars, txqs, rd, runVars, tbttVars>>

\* ------------------------------------------------------------ beacon tasklet

\* a tasklet_enable that is lost
tasklet_enable_lost(count) == count

\* tasklet_disable / tasklet_enable on the disable depth of the tasklet
tasklet_disable(count) == count + 1
tasklet_enable(count) == count - 1

\* the BSS_CHANGED_* flags mt76_bss_info_changed looks at
BssChanged == {"BSSID", "BEACON_INT", "BEACON_ENABLED", "ERP_SLOT"}

\* the conditional statements of mt76_bss_info_changed in program order,
\* each with the flag that guards it, and the final unlock
BssStmts == <<[pc |-> "bss_set_bssid", flag |-> "BSSID"],
              [pc |-> "bss_beacon_int", flag |-> "BEACON_INT"],
              [pc |-> "bss_tasklet_disable", flag |-> "BEACON_ENABLED"],
              [pc |-> "bss_erp_slot", flag |-> "ERP_SLOT"]>>

\* the statement that follows the n-th conditional for the given flags
bss_next(n, changed) ==
    LET taken == {m \in (n + 1)..Len(BssStmts) : BssStmts[m].flag \in changed}
    IN  IF taken = {} THEN "bss_out" ELSE BssStmts[Min(taken)].pc

BssPc == {"bss_set_bssid", "bss_beacon_int", "bss_tasklet_disable",
          "bss_set_beacon_enable", "bss_tasklet_enable", "bss_erp_slot", "bss_out"}
ScanPc == {"scan_set_bit", "scan_tasklet_enable"}

\* the host stack starts and completes software scans in turn
NoScanCall == \A t \in Threads : pc[t] \notin ScanPc

\* mt76_bss_info_changed, lines 165-167
bss_lock(t, changed) ==
    /\ mutex_lock(t, bss_next(0, changed), [NoLocals EXCEPT !.changed = changed])
    /\ UNCHANGED <<buildVars, staVars, vifVars, keyVars, txqs, ret, hw_writes, rd,
                   runVars, tbttVars>>

\* mt76_bss_info_changed, line 168: mt76_mac_set_bssid(dev, mvif->idx, ..)
bss_set_bssid(t) ==
    /\ pc[t] = "bss_set_bssid"
    /\ Goto(t, bss_next(1, loc[t].changed), loc[t])
    /\ UNCHANGED <<buildVars, staVars, vifVars, keyVars, txqs, ret, hw_writes, rd,
                   mutex, runVars, tbttVars>>

\* mt76_bss_info_changed, lines 171-173: the beacon interval field
bss_beacon_int(t) ==
    /\ pc[t] = "bss_beacon_int"
    /\ Goto(t, bss_next(2, loc[t].changed), loc[t])
    /\ UNCHANGED <<buildVars, staVars, vifVars, keyVars, txqs, ret, hw_writes, rd,
                   mutex, runVars, tbttVars>>

\* mt76_bss_info_changed, line 176: tasklet_disable(&dev->pre_tbtt_tasklet),
\* which returns once the tasklet is not running
bss_tasklet_disable(t) ==
    /\ pc[t] = "bss_tasklet_disable"
    /\ tbtt = "idle"
    /\ tasklet_count' = tasklet_disable(tasklet_count)
    /\ Goto(t, "bss_set_beacon_enable", loc[t])
    /\ UNCHANGED <<buildVars, staVars, vifVars, keyVars, txqs, ret, hw_writes, rd,
                   mutex, runVars, tbtt>>

\* mt76_bss_info_changed, line 177: mt76_mac_set_beacon_enable(dev, ..)
bss_set_beacon_enable(t) ==
    /\ pc[t] = "bss_set_beacon_enable"
    /\ Goto(t, "bss_tasklet_enable", loc[t])
    /\ UNCHANGED <<buildVars, staVars, vifVars, keyVars, txqs, ret, hw_writes, rd,
                   mutex, runVars, tbttVars>>

\* mt76_bss_info_changed, line 178: tasklet_enable(&dev->pre_tbtt_tasklet)
bss_tasklet_enable(t) ==
    /\ pc[t] = "bss_tasklet_enable"
    /\ tasklet_count' = tasklet_enable(tasklet_count)
    /\ Goto(t, bss_next(3, loc[t].changed), loc[t])
    /\ UNCHANGED <<buildVars, staVars, vifVars, keyVars, txqs, ret, hw_writes, rd,
                   mutex, runVars, tbtt>>

\* mt76_bss_info_changed, lines 181-186: the slot time field
bss_erp_slot(t) ==
    /\ pc[t] = "bss_erp_slot"
    /\ Goto(t, bss_next(4, loc[t].changed), loc[t])
    /\ UNCHANGED <<buildVars, staVars, vifVars, keyVars, txqs, ret, hw_writes, rd,
                   mutex, runVars, tbttVars>>

\* mt76_bss_info_changed, line 188
bss_unlock(t) ==
    /\ mutex_unlock(t, "bss_out")
    /\ hw_writes' = {}
    /\ UNCHANGED <<buildVars, staVars, vifVars, keyVars, txqs, rd, runVars, tbttVars>>

\* mt76_sw_scan, line 356, called while no scan is active
sw_scan_tasklet_disable(t) ==
    /\ pc[t] = "idle"
    /\ NoScanCall
    /\ "SCANNING" \notin state
    /\ tbtt = "idle"
    /\ tasklet_count' = tasklet_disable(tasklet_count)
    /\ Goto(t, "scan_set_bit", NoLocals)
    /\ UNCHANGED <<buildVars, staVars, vifVars, keyVars, txqs, ret, hw_writes, rd,
                   mutex, runVars, tbtt>>

\* mt76_sw_scan, line 357: set_bit(MT76_SCANNING, &dev->state)
sw_scan_set_bit(t) ==
    /\ pc[t] = "scan_set_bit"
    /\ state' = state \cup {"SCANNING"}
    /\ Goto(t, "idle", NoLocals)
    /\ UNCHANGED <<buildVars, staVars, vifVars, keyVars, txqs, ret, hw_writes, rd,
                   mutex, started, rxp, skb_fate, tbttVars>>

\* mt76_sw_scan_complete, line 365, called for the scan that is active
sw_scan_complete_clear_bit(t) ==
    /\ pc[t] = "idle"
    /\ NoScanCall
    /\ "SCANNING" \in state
    /\ state' = state \ {"SCANNING"}
    /\ Goto(t, "scan_tasklet_enable", NoLocals)
    /\ UNCHANGED <<buildVars, staVars, vifVars, keyVars, txqs, ret, hw_writes, rd,
                   mutex, started, rxp, skb_fate, tbttVars>>

\* mt76_sw_scan_complete, line 366: tasklet_enable(&dev->pre_tbtt_tasklet)
sw_scan_complete_tasklet_enable(t) ==
    /\ pc[t] = "scan_tasklet_enable"
    /\ tasklet_count' = tasklet_enable(tasklet_count)
    /\ Goto(t, "idle", NoLocals)
    /\ UNCHANGED <<buildVars, staVars, vifVars, keyVars, txqs, ret, hw_writes, rd,
                   mutex, runVars, tbtt>>

\* a beacon tick: the pre-TBTT tasklet runs unless it is disabled
pre_tbtt_tasklet ==
    /\ tbtt = "idle"
    /\ tasklet_count = 0
    /\ tbtt' = "running"
    /\ UNCHANGED <<buildVars, staVars, vifVars, keyVars, txqs, ret, hw_writes, rd,
                   lockVars, runVars, tasklet_count>>

\* the tasklet function returns
pre_tbtt_done ==
    /\ tbtt = "running"
    /\ tbtt' = "idle"
    /\ UNCHANGED <<buildVars, staVars, vifVars, keyVars, txqs, ret, hw_writes, rd,
                   lockVars, runVars, tasklet_count>>

\* ------------------------------------------------------------ other handlers

\* the handlers that bracket their body with the device mutex and whose
\* body is a hardware register sequence: mt76_config, mt76_configure_filter
LockedHandlers == {"config", "configure_filter"}

\* the handlers that run their body without taking the device mutex
UnlockedHandlers == {"add_interface", "remove_interface", "set_key", "conf_tx"}

\* mt76_config, line 104; mt76_configure_filter, line 137
handler_lock(t, h) ==
    /\ mutex_lock(t, h, NoLocals)
    /\ UNCHANGED <<buildVars, staVars, vifVars, keyVars, txqs, ret, hw_writes, rd,
                   runVars, tbttVars>>

\* mt76_config, lines 119-121; mt76_configure_filter, line 155
handler_unlock(t, h) ==
    /\ mutex_unlock(t, h)
    /\ hw_writes' = {}
    /\ UNCHANGED <<buildVars, staVars, vifVars, keyVars, txqs, rd, runVars, tbttVars>>

\* entry into mt76_add_interface, mt76_remove_interface, mt76_set_key or
\* mt76_conf_tx: the body starts at once
handler_enter(t, h) ==
    /\ pc[t] = "idle"
    /\ Goto(t, h, NoLocals)
    /\ UNCHANGED <<buildVars, staVars, vifVars, keyVars, txqs, ret, hw_writes, rd,
                   mutex, runVars, tbttVars>>

\* return from one of these handlers
handler_return(t, h) ==
    /\ pc[t] = h
    /\ Goto(t, "idle", NoLocals)
    /\ UNCHANGED <<buildVars, staVars, vifVars, keyVars, txqs, ret, hw_writes, rd,
                   mutex, runVars, tbttVars>>

\* ------------------------------------------------------------ specifications

TableIdx == 0..(ARRAY_SIZE_wcid_mask * BITS_PER_LONG - 1)

InitWith(widths, macs) ==
    /\ BITS_PER_LONG \in widths
    /\ macaddr0 \in macs
    /\ wcid_mask = [i \in 0..(ARRAY_SIZE_wcid_mask - 1) |-> {}]
    /\ dev_wcid = [i \in {} |-> NULL]
    /\ msta = [s \in {} |-> ZeroWcid]
    /\ sta = [s \in {} |-> NoSta]
    /\ added = {}
    /\ wcid_drop = {}
    /\ hw_wcid = [i \in {} |-> NoBinding]
    /\ vif = [v \in Vifs |-> NoVif]
    /\ mvif = [v \in Vifs |-> ZeroMvif]
    /\ vif_added = {}
    /\ txqs = {}
    /\ hw_wcid_key = [i \in {} |-> NO_KEY]
    /\ hw_shared_key = {}
    /\ key_out = 0
    /\ key_before = NO_KEY
    /\ ret = 0
    /\ hw_writes = {}
    /\ rd = NoReader
    /\ state = {}
    /\ mutex = NULL
    /\ pc = [t \in Threads |-> "idle"]
    /\ loc = [t \in Threads |-> NoLocals]
    /\ started = {}
    /\ tasklet_count = 0
    /\ tbtt = "idle"
    /\ rxp = NoPoll
    /\ skb_fate = [f \in {} |-> NoFate]

HwResults == {0, -EINVAL}
KeyCmds == {"SET_KEY", "DISABLE_KEY"}

\* The handlers under the host stack's calls, with a lock-free reader.
Init == InitWith({32}, {0})

Next ==
    \/ mt76_add_interface(1, 2, "AP")
    \/ mt76_remove_interface(1)
    \/ \E s \in 1..NSta : mt76_sta_add(s, 1, s)
    \/ \E s \in 1..NSta : mt76_sta_remove(s)
    \/ \E cmd \in KeyCmds, s \in {NULL} \cup (1..NSta), r \in HwResults :
          mt76_set_key(cmd, 1, s, 0, r, 0)
    \/ \E i \in TableIdx : rcu_dereference_wcid(i)
    \/ rcu_read_unlock

Spec == Init /\ [][Next]_vars

\* Key binding on one station slot and one group slot.
InitKey == InitWith({32}, {0})

NextKey ==
    \/ mt76_add_interface(1, 2, "AP")
    \/ mt76_sta_add(1, 1, 1)
    \/ \E cmd \in KeyCmds, k \in KeyIdx, r1 \in HwResults :
          mt76_set_key(cmd, 1, 1, k, r1, 0)
    \/ \E cmd \in KeyCmds, k \in KeyIdx, r1 \in HwResults, r2 \in HwResults :
          mt76_set_key(cmd, 1, NULL, k, r1, r2)

SpecKey == InitKey /\ [][NextKey]_vars

\* Station add and remove under a lock-free reader of dev->wcid.
InitRcu == InitWith(WordWidths, {0})

NextRcu ==
    \/ \E type \in IfTypes : mt76_add_interface(1, 0, type)
    \/ \E s \in 1..NSta, a \in Peers : mt76_sta_add(s, 1, a)
    \/ \E s \in 1..NSta : mt76_sta_remove(s)
    \/ \E i \in TableIdx : rcu_dereference_wcid(i)
    \/ rcu_read_unlock

SpecRcu == InitRcu /\ [][NextRcu]_vars

\* The allocator up to exhaustion: the host fills the table, asks for more,
\* and releases a station while few are added or after a refused add.
InitWcid == InitWith(WordWidths, {0})

FirstFree == Min(Records \ added)

NextWcid ==
    \/ \E type \in IfTypes : mt76_add_interface(1, 0, type)
    \/ \E v \in vif_added : Records \ added # {} /\ mt76_sta_add(FirstFree, v, 1)
    \/ \E s \in added :
          /\ Cardinality(added) <= MaxChurn \/ ret = -ENOSPC
          /\ mt76_sta_remove(s)

SpecWcid == InitWcid /\ [][NextWcid]_vars

\* The interface index derivation over device and interface addresses.
Octets == {2 * n : n \in 0..15} \cup {1, 255}
InitVif == InitWith({32}, {0, 28, 255})

NextVif ==
    \/ \E v \in Vifs, a \in Octets, type \in IfTypes : mt76_add_interface(v, a, type)
    \/ \E v \in Vifs : mt76_remove_interface(v)

SpecVif == InitVif /\ [][NextVif]_vars

\* Start and stop called in turn by the host, against the
\* receive-completion path.
InitRun == InitWith({32}, {0})

NextRun ==
    \/ start_lock(1)
    \/ \E r \in HwResults : start_mac(1, r)
    \/ \E r \in HwResults : start_phy(1, r)
    \/ start_queue_work(1)
    \/ start_napi_enable(1)
    \/ start_set_bit(1)
    \/ start_unlock(1)
    \/ stop_lock(1)
    \/ stop_napi_disable(1)
    \/ stop_clear_bit(1)
    \/ stop_hardware(1)
    \/ stop_unlock(1)
    \/ \E f \in Frames : napi_poll(f)
    \/ rx_test_bit
    \/ rx_free
    \/ rx_deliver

SpecRun == InitRun /\ [][NextRun]_vars

\* Every handler of the configuration path called from NThread host
\* contexts at once, against the receive path.
InitLock == InitWith({32}, {0})

AllIdle == \A t \in Threads : pc[t] = "idle"

StartStopStep(t) ==
    \/ start_lock(t)
    \/ \E r \in HwResults : start_mac(t, r)
    \/ \E r \in HwResults : start_phy(t, r)
    \/ start_queue_work(t)
    \/ start_napi_enable(t)
    \/ start_set_bit(t)
    \/ start_unlock(t)
    \/ stop_lock(t)
    \/ stop_napi_disable(t)
    \/ stop_clear_bit(t)
    \/ stop_hardware(t)
    \/ stop_unlock(t)

StaBodyStep(t) ==
    \/ sta_add_alloc(t)
    \/ sta_add_init(t)
    \/ sta_add_wcid_setup(t)
    \/ sta_add_clear_drop(t)
    \/ sta_add_txq_init(t)
    \/ sta_add_publish(t)
    \/ sta_add_unlock(t)
    \/ sta_remove_unpublish(t)
    \/ sta_remove_txq(t)
    \/ sta_remove_set_drop(t)
    \/ sta_remove_clear_mask(t)
    \/ sta_remove_wcid_setup(t)
    \/ sta_remove_unlock(t)

BssStep(t) ==
    \/ \E changed \in SUBSET BssChanged : bss_lock(t, changed)
    \/ bss_set_bssid(t)
    \/ bss_beacon_int(t)
    \/ bss_tasklet_disable(t)
    \/ bss_set_beacon_enable(t)
    \/ bss_tasklet_enable(t)
    \/ bss_erp_slot(t)
    \/ bss_unlock(t)

RxStep ==
    \/ \E f \in Frames : napi_poll(f)
    \/ rx_test_bit
    \/ rx_free
    \/ rx_deliver

NextLock ==
    \/ AllIdle /\ mt76_add_interface(1, 0, "AP")
    \/ \E t \in Threads : StartStopStep(t)
    \/ \E t \in Threads : sta_add_lock(t, 1, 1, 1)
    \/ \E t \in Threads : sta_remove_lock(t, 1)
    \/ \E t \in Threads : StaBodyStep(t)
    \/ \E t \in Threads : BssStep(t)
    \/ \E t \in Threads, h \in LockedHandlers : handler_lock(t, h)
    \/ \E t \in Threads, h \in LockedHandlers : handler_unlock(t, h)
    \/ \E t \in Threads, h \in UnlockedHandlers : handler_enter(t, h)
    \/ \E t \in Threads, h \in UnlockedHandlers : handler_return(t, h)
    \/ RxStep

SpecLock == InitLock /\ [][NextLock]_vars

\* Station add and remove statement by statement, every intermediate
\* state being one a lock-free reader of dev->wcid can observe.
InitSta == InitWith(WordWidths, {0})

NextSta ==
    \/ \E type \in IfTypes : mt76_add_interface(1, 0, type)
    \/ \E s \in 1..NSta, a \in Peers : sta_add_lock(1, s, 1, a)
    \/ \E s \in 1..NSta : sta_remove_lock(1, s)
    \/ StaBodyStep(1)

SpecSta == InitSta /\ [][NextSta]_vars

\* BSS configuration changes and software scans called from NThread host
\* contexts, against the beacon tick.
InitTbtt == InitWith({32}, {0})

ScanStep(t) ==
    \/ sw_scan_tasklet_disable(t)
    \/ sw_scan_set_bit(t)
    \/ sw_scan_complete_clear_bit(t)
    \/ sw_scan_complete_tasklet_enable(t)

NextTbtt ==
    \/ \E t \in Threads : BssStep(t)
    \/ \E t \in Threads : ScanStep(t)
    \/ pre_tbtt_tasklet
    \/ pre_tbtt_done

SpecTbtt == InitTbtt /\ [][NextTbtt]_vars

\* ------------------------------------------------------------ claims

\* the idx the allocator hands out, and those of them that are free
StaRange == 0..MAX_WCID
FreeIdx == StaRange \ BitsOf(wcid_mask)
HeldIdx == {msta[s].idx : s \in added}

\* a step of mt76_sta_add, whatever its arguments
StaAddStep == \E s \in Records \ added, v \in vif_added, a \in Peers : mt76_sta_add(s, v, a)

\* C1: every station that is currently added holds a WCID idx in 0..247,
\* and no two currently added stations hold the same idx.
C1_StaIdxUnique ==
    \A s \in added :
        /\ msta[s].idx \in StaRange
        /\ \A t \in added : t # s => msta[t].idx # msta[s].idx

\* C1 witness: a station was released from a full table, and 247 stations
\* with distinct idx remain around the hole.
C1_Witness ==
    /\ Cardinality(added) = MAX_WCID
    /\ Cardinality(FreeIdx) = 1
    /\ wcid_drop # {}

\* C2: the bits set in dev->wcid_mask are exactly the idx returned by the
\* allocator and not yet released, and all of them lie in 0..247.
C2_MaskIsHeldSet ==
    /\ BitsOf(wcid_mask) = HeldIdx
    /\ BitsOf(wcid_mask) \subseteq StaRange

\* C3: whenever some idx in 0..247 is free, the allocation returns the
\* lowest free idx k and sets bit k, for either word width.
C3_LowestFreeFirst ==
    [][(StaAddStep /\ FreeIdx # {}) =>
          /\ ret' = 0
          /\ \E s \in added' \ added : msta'[s].idx = Min(FreeIdx)
          /\ Min(FreeIdx) \in BitsOf(wcid_mask')]_vars

\* C4: from the empty bitmap the n-th allocation returns n - 1 up to the
\* 248th, the allocation on the full range is refused with -ENOSPC, and
\* with a single idx r released from the full range the next allocation
\* returns r.
C4_FillExhaustRelease ==
    [][StaAddStep =>
          /\ \A n \in StaRange :
                (BitsOf(wcid_mask) = 0..(n - 1) /\ HeldIdx = 0..(n - 1)) =>
                    (ret' = 0 /\ HeldIdx' = 0..n)
          /\ StaRange \subseteq BitsOf(wcid_mask) => ret' = -ENOSPC
          /\ \A r \in StaRange :
                FreeIdx = {r} => (ret' = 0 /\ HeldIdx' = HeldIdx \cup {r})]_vars

\* C5: a station add refused for exhaustion returns -ENOSPC and changes
\* nothing: not the bitmap, not dev->wcid, no hardware WCID or drop
\* register, no transmit queue.
C5_RefusedAddNoEffect ==
    [][(StaAddStep /\ ret' = -ENOSPC) =>
          /\ wcid_mask' = wcid_mask
          /\ dev_wcid' = dev_wcid
          /\ hw_wcid' = hw_wcid /\ wcid_drop' = wcid_drop /\ hw_writes' = {}
          /\ txqs' = txqs]_vars

\* the slot a key request binds to, before and after a step
KeySlot(v, s) == IF s # NULL THEN msta[s] ELSE mvif[v].group_wcid
KeySlotNext(v, s) == IF s # NULL THEN msta'[s] ELSE mvif'[v].group_wcid

\* C6: the Group WCID idx of every added interface is 254 - its idx, lies
\* outside the per-station range 0..247, and is shared by no interface of
\* another role or another address-derived offset.
C6_GroupWcidApart ==
    \A v \in vif_added :
        /\ mvif[v].group_wcid.idx = GROUP_WCID_BASE - mvif[v].idx
        /\ mvif[v].group_wcid.idx \notin StaRange
        /\ \A w \in vif_added :
              (vif[w].type # vif[v].type
                 \/ vif_idx(macaddr0, vif[w].addr0, "AP") # vif_idx(macaddr0, vif[v].addr0, "AP"))
              => mvif[w].group_wcid.idx # mvif[v].group_wcid.idx

\* C7: the idx of every added interface lies in 0..15: in 0..7 for an AP
\* interface, in 8..15 for a station interface.
C7_VifIdxRanges ==
    \A v \in vif_added :
        /\ mvif[v].idx \in 0..15
        /\ vif[v].type = "AP" => mvif[v].idx \in 0..7
        /\ vif[v].type = "STATION" => mvif[v].idx \in 8..15

\* C8: a successful set_key follows the two-state machine of the slot:
\* SET_KEY k yields hw_key_idx = k and reports the slot's idx; DISABLE_KEY
\* of the current hw_key_idx yields -1; DISABLE_KEY of another index leaves
\* hw_key_idx as it was.
C8_KeyStateMachine ==
    [][\A cmd \in KeyCmds, v \in vif_added, s \in {NULL} \cup added, k \in KeyIdx :
          ((\E r1 \in HwResults, r2 \in HwResults : mt76_set_key(cmd, v, s, k, r1, r2))
             /\ ret' = 0) =>
              LET cur == KeySlot(v, s).hw_key_idx
                  new == KeySlotNext(v, s).hw_key_idx
              IN  /\ cmd = "SET_KEY" => new = k /\ key_out' = KeySlot(v, s).idx
                  /\ (cmd = "DISABLE_KEY" /\ k = cur) => new = NO_KEY
                  /\ (cmd = "DISABLE_KEY" /\ k # cur) => new = cur]_vars

\* C8 witness: key index 0 was installed on the station slot and then
\* removed with the same index, and the slot is back at -1.
C8_Witness ==
    /\ 1 \in added
    /\ key_before = 0
    /\ hw_writes = {"wcid_key"}
    /\ ret = 0
    /\ msta[1].hw_key_idx = NO_KEY

\* C9: a set_key whose hardware step fails returns the error and leaves the
\* slot's hw_key_idx as it was, and a failed per-WCID step on a group key
\* leaves the shared-key table alone.
C9_FailedKeyNoEffect ==
    [][\A cmd \in KeyCmds, v \in vif_added, s \in {NULL} \cup added, k \in KeyIdx,
          r1 \in HwResults, r2 \in HwResults :
          (mt76_set_key(cmd, v, s, k, r1, r2) /\ ret' # 0) =>
              /\ KeySlotNext(v, s).hw_key_idx = KeySlot(v, s).hw_key_idx
              /\ (s = NULL /\ ret' = r1 /\ r1 # 0 /\ r2 = 0) =>
                    hw_shared_key' = hw_shared_key]_vars

\* C10: while the reader holds the reference it took from dev->wcid[i], the
\* record behind it still holds the station it looked up, added or removed:
\* never another station's slot.
C10_ReaderSeesOldStation ==
    rd.ref # NULL => Get(sta, rd.ref, NoSta).addr = rd.peer

\* C11: under every interleaving of mt76_rx with start and stop, a frame is
\* passed to ieee80211_rx only while MT76_STATE_RUNNING is set, and when
\* mt76_rx returns its frame was consumed exactly once, delivered or freed.
C11_RxGated ==
    [][/\ rx_deliver => "RUNNING" \in state
       /\ (rx_deliver \/ rx_free) =>
             LET f == skb_fate'[rxp.skb]
             IN  f.delivered + f.freed = 1]_vars

\* C11 witness: a stop waits in napi_disable while mt76_rx, which saw
\* RUNNING set, is about to deliver, after an earlier frame was freed.
C11_Witness ==
    /\ pc[1] = "stop_napi"
    /\ rxp.pc = "deliver"
    /\ \E f \in DOMAIN skb_fate : skb_fate[f].freed = 1

\* C12: a start whose mt76_mac_start or mt76_phy_start fails returns the
\* failure with the mutex released and the device as before the call: not
\* RUNNING, napi not enabled, calibration not scheduled, no subsystem left
\* started.
C12_FailedStartClean ==
    [][\A t \in Threads :
          (start_unlock(t) /\ ret' # 0) =>
              /\ mutex' = NULL
              /\ "RUNNING" \notin state'
              /\ started' = {}]_vars

\* a host context is inside the body of a configuration-path handler
InBody(t) == pc[t] \notin {"idle"} \cup ScanPc
Serialized == \A t \in Threads, u \in Threads : t # u => ~(InBody(t) /\ InBody(u))

\* C13: the configuration-path handlers are serialized by the device mutex,
\* so no two host contexts are inside handler bodies at the same time, and
\* no step of mt76_rx acquires the mutex.
C13_ConfigSerialized ==
    [][/\ Serialized'
       /\ (rx_test_bit \/ rx_free \/ rx_deliver) => mutex' = mutex]_vars

\* station slot idx: published, queues registered, drop bit set, bitmap
\* bit set, hardware address binding present
Published(i) == Get(dev_wcid, i, NULL) # NULL
Queued(s) == <<"sta", s>> \in txqs
Dropped(i) == i \in wcid_drop
Masked(i) == i \in BitsOf(wcid_mask)
Bound(i) == Get(hw_wcid, i, NoBinding) # NoBinding

\* C14: mt76_sta_remove unpublishes dev->wcid[idx], then unregisters the
\* transmit queues, then sets the drop bit, then clears the bitmap bit,
\* then clears the hardware binding; and in every state, also in the
\* middle of an add or a remove, a non-NULL dev->wcid[i] has bit i of
\* dev->wcid_mask set.
C14_RemoveOrder ==
    /\ \A i \in TableIdx : Published(i) => Masked(i)
    /\ \A t \in Threads :
          LET i == loc[t].idx
              s == loc[t].s
          IN  /\ pc[t] = "sta_rm_unpublish" =>
                    Published(i) /\ Queued(s) /\ ~Dropped(i) /\ Masked(i) /\ Bound(i)
              /\ pc[t] = "sta_rm_txq" =>
                    ~Published(i) /\ Queued(s) /\ ~Dropped(i) /\ Masked(i) /\ Bound(i)
              /\ pc[t] = "sta_rm_drop" =>
                    ~Published(i) /\ ~Queued(s) /\ ~Dropped(i) /\ Masked(i) /\ Bound(i)
              /\ pc[t] = "sta_rm_mask" =>
                    ~Published(i) /\ ~Queued(s) /\ Dropped(i) /\ Masked(i) /\ Bound(i)
              /\ pc[t] = "sta_rm_setup" =>
                    ~Published(i) /\ ~Queued(s) /\ Dropped(i) /\ ~Masked(i) /\ Bound(i)
              /\ pc[t] = "sta_rm_out" =>
                    ~Published(i) /\ ~Queued(s) /\ Dropped(i) /\ ~Masked(i) /\ ~Bound(i)

\* C14 witness: a remove has released the bitmap bit of its idx and not yet
\* cleared the hardware binding, while another station is published.
C14_Witness ==
    /\ pc[1] = "sta_rm_setup"
    /\ \E i \in TableIdx : Published(i)

\* C15: mt76_sta_add publishes the slot last: whatever dev->wcid[i] a
\* reader finds non-NULL is a slot with idx = i and hw_key_idx = -1, whose
\* hardware binding holds the station's address and BSS index, whose drop
\* bit is clear and whose transmit queues are registered.
C15_PublishedComplete ==
    /\ \A i \in TableIdx :
          Published(i) =>
              LET s == dev_wcid[i]
              IN  /\ Get(msta, s, ZeroWcid) = [idx |-> i, hw_key_idx |-> NO_KEY]
                  /\ Get(hw_wcid, i, NoBinding) =
                        [bss |-> mvif[sta[s].vif].idx, addr |-> sta[s].addr]
                  /\ ~Dropped(i)
                  /\ Queued(s)
    /\ \A t \in Threads :
          pc[t] \in {"sta_add_alloc", "sta_add_init", "sta_add_setup", "sta_add_drop",
                     "sta_add_txq", "sta_add_publish"} =>
              \A i \in TableIdx : Published(i) => dev_wcid[i] # loc[t].s

\* C15 witness: an add that reuses a released idx is about to publish its
\* slot, which a reader still sees as NULL, next to a published station.
C15_Witness ==
    /\ pc[1] = "sta_add_publish"
    /\ ~Published(loc[1].idx)
    /\ \E i \in TableIdx : Published(i) /\ i > loc[1].idx

\* the per-WCID hardware key entry of the slot a key request binds to
SlotKeyEntry(tbl, v, s) == Get(tbl, KeySlot(v, s).idx, NO_KEY)

\* C16: with the hardware steps succeeding, a DISABLE_KEY whose key index
\* differs from the slot's hw_key_idx (a keyed slot or an unkeyed one)
\* returns 0 and changes neither hw_key_idx nor the per-WCID hardware key
\* entry of the slot, on station slots and on group slots.
C16_StaleUninstallNoop ==
    [][\A v \in vif_added, s \in {NULL} \cup added, k \in KeyIdx :
          (mt76_set_key("DISABLE_KEY", v, s, k, 0, 0) /\ k # KeySlot(v, s).hw_key_idx) =>
              /\ ret' = 0
              /\ KeySlotNext(v, s).hw_key_idx = KeySlot(v, s).hw_key_idx
              /\ SlotKeyEntry(hw_wcid_key', v, s) = SlotKeyEntry(hw_wcid_key, v, s)]_vars

\* C17: with the hardware steps succeeding, a DISABLE_KEY of the slot's
\* current hw_key_idx sets hw_key_idx to -1 and resets the per-WCID
\* hardware key entry of the slot, on station slots and on group slots.
C17_MatchingUninstallClears ==
    [][\A v \in vif_added, s \in {NULL} \cup added, k \in KeyIdx :
          (mt76_set_key("DISABLE_KEY", v, s, k, 0, 0) /\ k = KeySlot(v, s).hw_key_idx) =>
              /\ KeySlotNext(v, s).hw_key_idx = NO_KEY
              /\ SlotKeyEntry(hw_wcid_key', v, s) = NO_KEY]_vars

\* C18: with the hardware steps succeeding, a key request without a station
\* binds the interface's Group WCID slot and writes the shared-key table
\* exactly when it installs a key or removes the key index the slot holds;
\* a key request for a station binds that station's slot only and never
\* writes the shared-key table.
C18_SharedKeyWrites ==
    [][\A cmd \in KeyCmds, v \in vif_added, s \in {NULL} \cup added, k \in KeyIdx :
          mt76_set_key(cmd, v, s, k, 0, 0) =>
              /\ s = NULL =>
                    /\ msta' = msta
                    /\ cmd = "SET_KEY" => mvif'[v].group_wcid.hw_key_idx = k
                    /\ ("shared_key" \in hw_writes') <=>
                          (cmd = "SET_KEY" \/ k = KeySlot(v, s).hw_key_idx)
              /\ s # NULL =>
                    /\ mvif' = mvif
                    /\ hw_shared_key' = hw_shared_key
                    /\ "shared_key" \notin hw_writes']_vars

\* a host context is inside mt76_mac_set_bssid or mt76_mac_set_beacon_enable
InBeaconRegs(t) == pc[t] \in {"bss_set_bssid", "bss_set_beacon_enable"}

\* C19: while mt76_bss_info_changed is inside mt76_mac_set_bssid or
\* mt76_mac_set_beacon_enable the pre-TBTT tasklet is disabled, so no beacon
\* tick runs between the start and the end of such a register update.
C19_TaskletOffForBeaconRegs ==
    \A t \in Threads :
        InBeaconRegs(t) => tasklet_count > 0 /\ tbtt = "idle"

\* no scan is active and no mt76_bss_info_changed is in progress
NoScanNoBss == "SCANNING" \notin state /\ \A t \in Threads : pc[t] \notin ScanPc \cup BssPc

\* C20: under every interleaving of mt76_bss_info_changed with scans that
\* start and complete in turn, the disable depth of the pre-TBTT tasklet is
\* never negative, is positive whenever MT76_SCANNING is set, and is zero
\* once no scan is active and no mt76_bss_info_changed is in progress.
C20_TaskletBalanced ==
    /\ tasklet_count >= 0
    /\ "SCANNING" \in state => tasklet_count > 0
    /\ NoScanNoBss => tasklet_count = 0

\* C20 witness: the beacon-enable update of a mt76_bss_info_changed runs
\* during a scan, at disable depth two.
C20_Witness ==
    /\ "SCANNING" \in state
    /\ \E t \in Threads : pc[t] = "bss_set_beacon_enable"
    /\ tasklet_count = 2

====
